---- MODULE Spec2Model ----
(***************************************************************************)
(* The Streamlit chat front-end of src/app.py, as a state machine.         *)
(*                                                                         *)
(* One session is modelled.  st.session_state persists across script runs; *)
(* every user event (page load, widget change, button click, chat          *)
(* submission) starts one run of main().  Python lists and dicts are heap  *)
(* objects with identities, so that list(...) in build_messages is a       *)
(* shallow copy and .append mutates a list in place.  Temperatures are     *)
(* integers in hundredths (0.2 is 20, the slider step 0.05 is 5).          *)
(***************************************************************************)
EXTENDS Naturals, Sequences, FiniteSets, TLC

\* ------------------------------------------------------------------ bounds
\* Non-empty submissions accepted over a run of the model.
MaxSubmissions == 3

\* ------------------------------------------------------- program constants
DefaultTemperature == 20
SliderMin == 0
SliderMax == 100
SliderStep == 5

DefaultModel == "gpt-3.5-turbo"
Options == <<"gpt-3.5-turbo", "gpt-4">>
SliderStops == {t \in SliderMin..SliderMax : (t - SliderMin) % SliderStep = 0}
Keys == {"messages", "model", "temperature"}

get_default_system_prompt ==
    "You are a helpful assistant and expert Python programming tutor. "
    \o "Answer questions clearly and concisely. Provide runnable Python code examples when helpful, "
    \o "explain reasoning, and mention version-specific features if relevant (e.g., Python 3.10 match/case). "
    \o "Prefer standard library solutions unless a third-party library is essential. "
    \o "When showing code, use complete examples and highlight potential pitfalls. "
    \o "If the user's question is ambiguous, ask a brief clarifying question."

\* ------------------------------------------------------------------ inputs
\* What the chat box can deliver, what the remote service can answer, and
\* the descriptions of the exceptions the two calls inside the try can raise.
UserInputs == {"", "How do I use list comprehensions?"}
Replies == {"Use [f(x) for x in xs]."}
ClientFaults == {"The api_key client option must be set"}
CallFaults == {"Connection error."}
\* The slider positions the user moves to, among the stops the slider has.
SliderPicks == {t \in SliderStops : t \in {SliderMin, 75, SliderMax}}
Outcomes ==
    [kind : {"client_fault"}, detail : ClientFaults]
        \cup [kind : {"call_fault"}, detail : CallFaults]
        \cup [kind : {"ok"}, detail : Replies]

\* Python's None and a present value, for variables that may hold None.
None == << >>
Some(v) == <<v>>

VARIABLES
    session_state,  \* st.session_state: the keys present -> their values
    lists,          \* heap of list objects: id -> sequence of dict ids
    dicts,          \* heap of dict objects: id -> [role, content]
    widgets,        \* values held by the selectbox and the slider, None before they exist
    pc,             \* position of main(): Start, Idle, AwaitingReply, Replied, Rendered, Failed
    event,          \* the user event that started the latest script run
    user_input,     \* what st.chat_input returned in the latest run (line 98)
    messages,       \* main's local `messages` (line 111): None or a list id
    reply,          \* main's local `reply` (lines 112, 119): None or a string
    e,              \* the exception bound by `except Exception as e`, or None
    request,        \* arguments of client.chat.completions.create in this run, or None
    submissions,    \* non-empty submissions so far
    calls,          \* calls of client.chat.completions.create so far
    uncaught        \* whether an exception has escaped main()

vars == <<session_state, lists, dicts, widgets, pc, event, user_input,
          messages, reply, e, request, submissions, calls, uncaught>>

\* ---------------------------------------------------------------- the heap
Store == [ss |-> session_state, lists |-> lists, dicts |-> dicts]

Range(s) == {s[i] : i \in DOMAIN s}

\* The identity of the next object created: the smallest one not in use.
Fresh(used) ==
    CHOOSE i \in 1..(Cardinality(used) + 1) :
        i \notin used /\ \A j \in 1..(i - 1) : j \in used

NextDict(S) == Fresh(DOMAIN S.dicts)
NextList(S) == Fresh(DOMAIN S.lists)
AllocDict(S, d) == [S EXCEPT !.dicts = (NextDict(S) :> d) @@ @]
AllocList(S, items) == [S EXCEPT !.lists = (NextList(S) :> items) @@ @]

\* The role/content records a list object holds, in order.
Content(S, l) == [i \in DOMAIN S.lists[l] |-> S.dicts[S.lists[l][i]]]

\* Reference counting: objects reachable from neither st.session_state nor
\* the local variables `roots` are freed.
Collect(S, roots) ==
    LET liveLists ==
            (IF "messages" \in DOMAIN S.ss THEN {S.ss["messages"]} ELSE {})
                \cup Range(roots)
        liveDicts == UNION {Range(S.lists[l]) : l \in liveLists}
    IN  [ss |-> S.ss,
         lists |-> [l \in liveLists |-> S.lists[l]],
         dicts |-> [d \in liveDicts |-> S.dicts[d]]]

Commit(S, roots) ==
    LET C == Collect(S, roots)
    IN  /\ session_state' = C.ss
        /\ lists' = C.lists
        /\ dicts' = C.dicts

\* --------------------------------------------------------- session state
\* [{"role": "system", "content": get_default_system_prompt()}] bound to
\* st.session_state.messages: a new dict in a new list.
new_system_list(S) ==
    LET d == NextDict(S)
        Sd == AllocDict(S, [role |-> "system", content |-> get_default_system_prompt])
        l == NextList(Sd)
        Sl == AllocList(Sd, <<d>>)
    IN  [Sl EXCEPT !.ss = ("messages" :> l) @@ @]

\* Mutant: the transcript is set to its default on every run.
ensure_session_state_reset(S) ==
    LET S1 == new_system_list(S)
        S2 == IF "model" \notin DOMAIN S1.ss
              THEN [S1 EXCEPT !.ss = ("model" :> DefaultModel) @@ @]
              ELSE S1
    IN  IF "temperature" \notin DOMAIN S2.ss
        THEN [S2 EXCEPT !.ss = ("temperature" :> DefaultTemperature) @@ @]
        ELSE S2

ensure_session_state(S) ==
    LET S1 == IF "messages" \notin DOMAIN S.ss THEN new_system_list(S) ELSE S
        S2 == IF "model" \notin DOMAIN S1.ss
              THEN [S1 EXCEPT !.ss = ("model" :> DefaultModel) @@ @]
              ELSE S1
    IN  IF "temperature" \notin DOMAIN S2.ss
        THEN [S2 EXCEPT !.ss = ("temperature" :> DefaultTemperature) @@ @]
        ELSE S2

\* st.selectbox: the value the widget holds; when it is first created, the
\* option at `index`.
selectbox(S, w) ==
    IF w.model # None
    THEN w.model[1]
    ELSE Options[(IF "model" \in DOMAIN S.ss /\ S.ss["model"] = "gpt-3.5-turbo"
                  THEN 0 ELSE 1) + 1]

\* st.slider: the value the widget holds; when it is first created, `value`.
slider(S, w) ==
    IF w.temperature # None
    THEN w.temperature[1]
    ELSE IF "temperature" \in DOMAIN S.ss THEN S.ss["temperature"] ELSE DefaultTemperature

\* The widget values after the sidebar has been drawn.
rendered_widgets(S, w) ==
    [model |-> Some(selectbox(S, w)), temperature |-> Some(slider(S, w))]

\* Mutant: the button appends a system message to the transcript in place.
new_conversation_append(S) ==
    LET d == NextDict(S)
        Sd == AllocDict(S, [role |-> "system", content |-> get_default_system_prompt])
    IN  [Sd EXCEPT !.lists[Sd.ss["messages"]] = Append(@, d)]

\* The body of `if st.button("New conversation")`, up to the rerun.
new_conversation(S) == new_system_list(S)

render_sidebar(S, w, button) ==
    LET S1 == [S EXCEPT !.ss = ("model" :> selectbox(S, w)) @@ @]
        S2 == [S1 EXCEPT !.ss = ("temperature" :> slider(S1, w)) @@ @]
    IN  IF button THEN new_conversation(S2) ELSE S2

\* Mutant: insert(0, ...) instead of append(...).
append_message_front(S, role, content) ==
    LET d == NextDict(S)
        Sd == AllocDict(S, [role |-> role, content |-> content])
    IN  [Sd EXCEPT !.lists[Sd.ss["messages"]] = <<d>> \o @]

\* st.session_state.messages.append({"role": role, "content": content})
append_message(S, role, content) ==
    LET d == NextDict(S)
        Sd == AllocDict(S, [role |-> role, content |-> content])
    IN  [Sd EXCEPT !.lists[Sd.ss["messages"]] = Append(@, d)]

\* Mutant: `if user_input is not None:`.
truthy_not_none(v) == v # None

\* `if user_input:` - None and the empty string are falsy.
truthy(v) == v # None /\ v[1] # ""

\* Mutant: the list itself is returned, not a copy.
build_messages_alias(S) ==
    [S |-> S, ref |-> S.ss["messages"]]

\* Mutant: the system message is left out of the copy.
build_messages_no_system(S) ==
    [S |-> AllocList(S, SelectSeq(S.lists[S.ss["messages"]],
                                  LAMBDA d : S.dicts[d].role # "system")),
     ref |-> NextList(S)]

\* list(st.session_state.messages): a new list object holding the same dicts.
build_messages(S) ==
    [S |-> AllocList(S, S.lists[S.ss["messages"]]), ref |-> NextList(S)]

\* Mutant: the except clause raises again.
except_Exception_reraise(err) ==
    [raised |-> TRUE, e |-> Some(err), reply |-> None]

\* Mutant: the reply is the bare description of the exception.
except_Exception_bare(err) ==
    [raised |-> FALSE, e |-> Some(err), reply |-> Some("Details: " \o err)]

\* The except clause: every exception of the try block is caught and turned
\* into the reply.
except_Exception(err) ==
    [raised |-> FALSE,
     e |-> Some(err),
     reply |-> Some("Sorry, I couldn't process your request. " \o "Details: " \o err)]

\* Mutant: a call that raises is made a second time before the except
\* clause gets the exception.
try_block_retry(S, o) ==
    IF o.kind = "client_fault"
    THEN [S |-> S, messages |-> None, request |-> None, attempts |-> 0,
          result |-> except_Exception(o.detail)]
    ELSE LET b == build_messages(S)
         IN  [S |-> b.S,
              messages |-> Some(b.ref),
              request |-> Some([model |-> b.S.ss["model"],
                                messages |-> Content(b.S, b.ref),
                                temperature |-> b.S.ss["temperature"]]),
              attempts |-> IF o.kind = "ok" THEN 1 ELSE 2,
              result |-> IF o.kind = "ok"
                         THEN [raised |-> FALSE, e |-> None, reply |-> Some(o.detail)]
                         ELSE except_Exception(o.detail)]

\* The try block under outcome o: init_client(), build_messages(),
\* ask_openai(...), and the except clause when one of them raises.
try_block(S, o) ==
    IF o.kind = "client_fault"
    THEN [S |-> S, messages |-> None, request |-> None, attempts |-> 0,
          result |-> except_Exception(o.detail)]
    ELSE LET b == build_messages(S)
         IN  [S |-> b.S,
              messages |-> Some(b.ref),
              request |-> Some([model |-> b.S.ss["model"],
                                messages |-> Content(b.S, b.ref),
                                temperature |-> b.S.ss["temperature"]]),
              attempts |-> 1,
              result |-> IF o.kind = "ok"
                         THEN [raised |-> FALSE, e |-> None, reply |-> Some(o.detail)]
                         ELSE except_Exception(o.detail)]

\* ------------------------------------------------------------------ state
Init ==
    /\ session_state = [k \in {} |-> None]
    /\ lists = [l \in {} |-> << >>]
    /\ dicts = [d \in {} |-> None]
    /\ widgets = [model |-> None, temperature |-> None]
    /\ pc = "Start"
    /\ event = "none"
    /\ user_input = None
    /\ messages = None
    /\ reply = None
    /\ e = None
    /\ request = None
    /\ submissions = 0
    /\ calls = 0
    /\ uncaught = FALSE

\* A run of main() that reaches its end without entering `if user_input:`.
PlainRun(ev, w, ui) ==
    LET S == render_sidebar(ensure_session_state(Store), w, FALSE)
    IN  /\ Commit(S, None)
        /\ widgets' = rendered_widgets(ensure_session_state(Store), w)
        /\ pc' = "Idle"
        /\ event' = ev
        /\ user_input' = ui
        /\ messages' = None
        /\ reply' = None
        /\ e' = None
        /\ request' = None
        /\ UNCHANGED <<submissions, calls, uncaught>>

\* The page is loaded, or rerun with no widget changed.
Load ==
    /\ pc \in {"Start", "Idle"}
    /\ PlainRun("load", widgets, None)

\* The user picks another model in the selectbox.
SelectModel ==
    /\ pc = "Idle"
    /\ \E m \in Range(Options) :
        /\ Some(m) # widgets.model
        /\ PlainRun("selectbox", [widgets EXCEPT !.model = Some(m)], None)

\* The user moves the temperature slider.
SlideTemperature ==
    /\ pc = "Idle"
    /\ \E t \in SliderPicks :
        /\ Some(t) # widgets.temperature
        /\ PlainRun("slider", [widgets EXCEPT !.temperature = Some(t)], None)

\* The user clicks "New conversation": the run replaces the transcript and
\* st.experimental_rerun() starts main() again, with the button released.
NewConversation ==
    /\ pc = "Idle"
    /\ LET S1 == render_sidebar(ensure_session_state(Store), widgets, TRUE)
           S2 == render_sidebar(ensure_session_state(S1), widgets, FALSE)
       IN  /\ Commit(S2, None)
           /\ widgets' = rendered_widgets(ensure_session_state(S1), widgets)
    /\ pc' = "Idle"
    /\ event' = "button"
    /\ user_input' = None
    /\ messages' = None
    /\ reply' = None
    /\ e' = None
    /\ request' = None
    /\ UNCHANGED <<submissions, calls, uncaught>>

\* The user submits the chat box: main() up to the spinner.
Submit ==
    /\ pc = "Idle"
    /\ \E text \in UserInputs :
        LET S == render_sidebar(ensure_session_state(Store), widgets, FALSE)
        IN  IF truthy(Some(text))
            THEN /\ submissions < MaxSubmissions
                 /\ Commit(append_message(S, "user", text), None)
                 /\ pc' = "AwaitingReply"
                 /\ submissions' = submissions + 1
                 /\ widgets' = rendered_widgets(ensure_session_state(Store), widgets)
                 /\ event' = "chat_input"
                 /\ user_input' = Some(text)
                 /\ messages' = None
                 /\ reply' = None
                 /\ e' = None
                 /\ request' = None
                 /\ UNCHANGED <<calls, uncaught>>
            ELSE PlainRun("chat_input", widgets, Some(text))

\* The try/except around the completion.  An exception the except clause
\* does not catch leaves main(): the run is over and nothing is appended.
Complete ==
    /\ pc = "AwaitingReply"
    /\ \E o \in Outcomes :
        LET t == try_block(Store, o)
        IN  IF t.result.raised
            THEN /\ Commit(t.S, None)
                 /\ pc' = "Failed"
                 /\ uncaught' = TRUE
                 /\ messages' = None
                 /\ reply' = None
                 /\ e' = None
                 /\ request' = t.request
                 /\ calls' = calls + t.attempts
            ELSE /\ Commit(t.S, t.messages)
                 /\ pc' = "Replied"
                 /\ uncaught' = uncaught
                 /\ messages' = t.messages
                 /\ reply' = t.result.reply
                 /\ e' = t.result.e
                 /\ request' = t.request
                 /\ calls' = calls + t.attempts
    /\ UNCHANGED <<widgets, event, user_input, submissions>>

\* Mutant: the reply is appended only when no exception was caught.
AppendAssistant_on_success ==
    /\ pc = "Replied"
    /\ Commit(IF e = None THEN append_message(Store, "assistant", reply[1]) ELSE Store,
              messages)
    /\ pc' = "Rendered"
    /\ UNCHANGED <<widgets, event, user_input, messages, reply, e, request,
                   submissions, calls, uncaught>>

\* st.session_state.messages.append({"role": "assistant", "content": reply})
AppendAssistant ==
    /\ pc = "Replied"
    /\ Commit(append_message(Store, "assistant", reply[1]), messages)
    /\ pc' = "Rendered"
    /\ UNCHANGED <<widgets, event, user_input, messages, reply, e, request,
                   submissions, calls, uncaught>>

\* main() returns: its locals go away.
EndRun ==
    /\ pc = "Rendered"
    /\ Commit(Store, None)
    /\ pc' = "Idle"
    /\ messages' = None
    /\ reply' = None
    /\ e' = None
    /\ UNCHANGED <<widgets, event, user_input, request, submissions, calls, uncaught>>

Next ==
    \/ Load
    \/ SelectModel
    \/ SlideTemperature
    \/ NewConversation
    \/ Submit
    \/ Complete
    \/ AppendAssistant
    \/ EndRun

Spec == Init /\ [][Next]_vars

\* The script runs to its end once started, and the remote call returns or
\* raises.
LiveSpec == Spec /\ WF_vars(Complete) /\ WF_vars(AppendAssistant) /\ WF_vars(EndRun)

\* ------------------------------------------------------------ properties
\* The transcript: the role/content records of st.session_state.messages.
Transcript == Content(Store, session_state["messages"])
SystemMessage == [role |-> "system", content |-> get_default_system_prompt]
IsFaultReply(text) ==
    \E d \in ClientFaults \cup CallFaults :
        text = "Sorry, I couldn't process your request. Details: " \o d
RolesAlternate(t) ==
    /\ Len(t) % 2 = 1
    /\ t[1].role = "system"
    /\ \A i \in 2..Len(t) : t[i].role = (IF i % 2 = 0 THEN "user" ELSE "assistant")

\* C1: once the first run has initialised the session, the transcript holds
\* exactly one system message and it is the first element, in every state.
C1_OneSystemFirst ==
    pc # "Start" =>
        /\ "messages" \in DOMAIN session_state
        /\ Len(Transcript) >= 1
        /\ Transcript[1].role = "system"
        /\ \A i \in 2..Len(Transcript) : Transcript[i].role # "system"

\* C1 witness: after a reset, a successful reply and a fault reply.
C1_Witness ==
    /\ pc = "Idle"
    /\ submissions = 3
    /\ Len(Transcript) = 5
    /\ Transcript[3].content \in Replies
    /\ IsFaultReply(Transcript[5].content)

\* C2: a run started by the "New conversation" button leaves the transcript
\* as the single default system message, whatever it was before, and leaves
\* model and temperature as they were.
C2_Reset ==
    [][(pc = "Idle" /\ event' = "button") =>
          /\ Transcript' = <<SystemMessage>>
          /\ session_state'["model"] = session_state["model"]
          /\ session_state'["temperature"] = session_state["temperature"]]_vars

\* C2 witness: the button was clicked after submissions, with settings that
\* are not the defaults.
C2_Witness ==
    /\ pc = "Idle"
    /\ event = "button"
    /\ submissions >= 2
    /\ Len(Transcript) = 1
    /\ session_state["model"] = "gpt-4"
    /\ session_state["temperature"] = 75

\* C3: no exception of the completion step escapes main(); the caught
\* exception becomes the reply "Sorry, I couldn't process your request.
\* Details: <description>", and the reply is appended as one assistant
\* message, as a successful reply is.
C3_FaultBecomesReply ==
    /\ [](/\ ~uncaught
          /\ pc # "Failed"
          /\ (pc \in {"Replied", "Rendered"} /\ e # None) =>
                reply = Some("Sorry, I couldn't process your request. Details: " \o e[1]))
    /\ [][pc = "Replied" =>
             Transcript' = Append(Transcript, [role |-> "assistant", content |-> reply[1]])]_vars

\* C3 witness: a fault reply has been appended.
C3_Witness ==
    /\ pc = "Rendered"
    /\ e = Some("Connection error.")
    /\ Transcript[Len(Transcript)]
          = [role |-> "assistant",
             content |-> "Sorry, I couldn't process your request. Details: Connection error."]

\* C4: a submission cycle that is awaiting its reply leads to Idle.
C4_ReturnsToIdle == (pc \in {"AwaitingReply", "Replied", "Rendered"}) ~> (pc = "Idle")

\* C4 witness: Idle again after a cycle that ended in a fault.
C4_Witness ==
    /\ pc = "Idle"
    /\ event = "chat_input"
    /\ truthy(user_input)
    /\ IsFaultReply(Transcript[Len(Transcript)].content)
    /\ calls < submissions

\* C5: the first run sets the transcript, model and temperature to their
\* defaults; on a session that has them, ensure_session_state changes
\* nothing, and a run with no user event leaves the session state as it was.
C5_InitIdempotent ==
    /\ [](Keys \subseteq DOMAIN session_state => ensure_session_state(Store) = Store)
    /\ [][/\ pc = "Start" =>
                /\ Transcript' = <<SystemMessage>>
                /\ session_state'["model"] = "gpt-3.5-turbo"
                /\ session_state'["temperature"] = 20
          /\ (pc = "Idle" /\ event' = "load") =>
                /\ Transcript' = Transcript
                /\ session_state'["model"] = session_state["model"]
                /\ session_state'["temperature"] = session_state["temperature"]]_vars

\* C5 witness: a plain rerun of a session in progress.
C5_Witness ==
    /\ pc = "Idle"
    /\ event = "load"
    /\ Len(Transcript) >= 3
    /\ session_state["model"] = "gpt-4"
    /\ session_state["temperature"] = 0

\* C6: a run started by an empty submission appends nothing, issues no
\* call and ends Idle.
C6_EmptyInputNoOp ==
    [][(pc = "Idle" /\ event' = "chat_input" /\ user_input' = Some("")) =>
          /\ Transcript' = Transcript
          /\ calls' = calls
          /\ request' = None
          /\ pc' = "Idle"]_vars

\* C6 witness: an empty submission on a conversation in progress.
C6_Witness ==
    /\ pc = "Idle"
    /\ event = "chat_input"
    /\ user_input = Some("")
    /\ Len(Transcript) >= 3

\* C7: the calls of the remote completion never outnumber the non-empty
\* submissions.
C7_AtMostOneCall == calls <= submissions

\* C7 witness: a call raised, and the next submission made its own call.
C7_Witness ==
    /\ pc = "Replied"
    /\ calls = 2
    /\ Len(Transcript) = 4
    /\ IsFaultReply(Transcript[3].content)

\* C8: the request carries the stored transcript, element for element: the
\* system message first, the user message just appended last, and the
\* model and temperature of the session state.
C8_RequestIsTranscript ==
    (pc = "Replied" /\ request # None) =>
        /\ request[1].messages = Transcript
        /\ request[1].messages[1] = SystemMessage
        /\ request[1].messages[Len(request[1].messages)]
              = [role |-> "user", content |-> user_input[1]]
        /\ request[1].model = session_state["model"]
        /\ request[1].temperature = session_state["temperature"]

\* C8 witness: a request on the second turn with settings that are not the
\* defaults.
C8_Witness ==
    /\ pc = "Replied"
    /\ request # None
    /\ Len(request[1].messages) = 4
    /\ request[1].model = "gpt-4"
    /\ request[1].temperature = 75

\* C9: the list build_messages returned holds what it held when the
\* request was made, whatever has happened to the transcript since.
C9_SnapshotUnaffected ==
    messages # None => Content(Store, messages[1]) = request[1].messages

\* C9 witness: the transcript has grown since the snapshot was taken.
C9_Witness ==
    /\ pc = "Rendered"
    /\ messages # None
    /\ Len(Transcript) = Len(Content(Store, messages[1])) + 1
    /\ Len(Transcript) >= 5

\* C10: when Idle the transcript is system followed by (user, assistant)
\* pairs; a submission appends one user message, the completion appends
\* nothing, and the end of the cycle appends one assistant message.
C10_PairsWhenIdle ==
    /\ [](pc = "Idle" => RolesAlternate(Transcript))
    /\ [][/\ (pc = "Idle" /\ pc' = "AwaitingReply") =>
                /\ Len(Transcript') = Len(Transcript) + 1
                /\ Transcript'[Len(Transcript')].role = "user"
          /\ pc = "AwaitingReply" => Transcript' = Transcript
          /\ pc = "Replied" =>
                /\ Len(Transcript') = Len(Transcript) + 1
                /\ Transcript'[Len(Transcript')].role = "assistant"
          /\ pc = "Rendered" => Transcript' = Transcript]_vars

\* C10 witness: Idle after three full cycles, one of them a fault.
C10_Witness ==
    /\ pc = "Idle"
    /\ Len(Transcript) = 7
    /\ IsFaultReply(Transcript[5].content)
    /\ Transcript[7].content \in Replies

====
